---- MODULE Spec2Model ----
(***************************************************************************)
(* Encrypted contract deduplication and retrieval store of jurisai:        *)
(*   backend/routes/smartContractAnalysis.js  (request handlers)           *)
(*   backend/models/contractSignature.models.js (schema, record methods)   *)
(*   backend/utils/encryption.js, backend/utils/multer.js (part_006)       *)
(* Every request handler is cut at its awaits: one action per database     *)
(* round trip or child-process completion, together with the synchronous   *)
(* code that runs when it resolves.                                        *)
(***************************************************************************)
EXTENDS Integers, Sequences, FiniteSets, TLC

(* ------------------------------ bounds --------------------------------- *)
\* number of requests the server accepts in one run
MaxRequests == 2
\* number of requests in a run that only reads one stored record
MaxReads == 3
\* number of draws of the secure random source in a sealing experiment
MaxDraws == 2
\* requests accepted by the hire, vote and application routes in one run
MaxCalls == 3

\* the request handlers that can be in flight together
Procs == {1, 2}
Users == {"A", "B"}
\* raw upload contents and original file names
Bytes == {"X", "Y"}
Names == {"n1", "n2"}
\* Original names matter only through the staged path two requests in flight
\* may share, and the requests of one handler never overlap: handler 1
\* always uploads as "n1", the others choose.
NamesOf(p) == IF p = 1 THEN {"n1"} ELSE Names

NoFile == "nofile"
Undefined == <<"undef", 0>>
JNull == <<"null", 0>>

(* --------------------------- JS values / JSON -------------------------- *)
\* A JS value is <<tag, payload>>; an object is <<"obj", <<<<key, value>>, ...>>>>.
JBool(b) == <<"bool", b>>
JNum(n) == <<"num", n>>
JStr(s) == <<"str", s>>
JDate(d) == <<"date", d>>
JObj(kvs) == <<"obj", kvs>>

\* Date.prototype.toJSON: a Date is serialised as its ISO string
ISOString(d) == "T" \o ToString(d)

\* JSON.stringify of a scalar: one token; a Date becomes a string token
ScalarToken(v) ==
  CASE v[1] = "num" -> <<"num", v[2]>>
    [] v[1] = "bool" -> <<"bool", v[2]>>
    [] v[1] = "str" -> <<"str", v[2]>>
    [] v[1] = "date" -> <<"str", ISOString(v[2])>>
    [] OTHER -> <<"null", 0>>

RECURSIVE MemberTokens(_)
\* members of an object; a member whose value is undefined is omitted
MemberTokens(kvs) ==
  IF kvs = <<>> THEN <<>>
  ELSE IF Head(kvs)[2] = Undefined THEN MemberTokens(Tail(kvs))
  ELSE <<<<"key", Head(kvs)[1]>>, ScalarToken(Head(kvs)[2])>> \o MemberTokens(Tail(kvs))

\* JSON.stringify(data): the text as a sequence of tokens
JSONStringify(v) ==
  IF v[1] = "obj"
    THEN <<<<"punct", "{">>>> \o MemberTokens(v[2]) \o <<<<"punct", "}">>>>
    ELSE <<ScalarToken(v)>>

TokenValue(t) ==
  CASE t[1] = "num" -> JNum(t[2])
    [] t[1] = "bool" -> JBool(t[2])
    [] t[1] = "str" -> JStr(t[2])
    [] OTHER -> JNull

RECURSIVE ParseMembers(_)
ParseMembers(toks) ==
  IF Len(toks) < 2 THEN <<>>
  ELSE <<<<toks[1][2], TokenValue(toks[2])>>>> \o ParseMembers(SubSeq(toks, 3, Len(toks)))

\* JSON.parse(text)
JSONParse(toks) ==
  IF toks[1] = <<"punct", "{">>
    THEN JObj(ParseMembers(SubSeq(toks, 2, Len(toks) - 1)))
    ELSE TokenValue(toks[1])

\* obj.key (undefined when the key is absent)
RECURSIVE GetKey(_, _)
GetKey(kvs, k) ==
  IF kvs = <<>> THEN Undefined
  ELSE IF Head(kvs)[1] = k THEN Head(kvs)[2] ELSE GetKey(Tail(kvs), k)

Prop(v, k) == IF v[1] = "obj" THEN GetKey(v[2], k) ELSE Undefined

\* JS truthiness of the values the model uses
Truthy(v) ==
  CASE v[1] = "obj" -> TRUE
    [] v[1] = "bool" -> v[2]
    [] v[1] = "num" -> v[2] # 0
    [] v[1] = "str" -> v[2] # ""
    [] v[1] = "date" -> TRUE
    [] OTHER -> FALSE

(* ------------------------------ crypto --------------------------------- *)
AAD == "contract-signature"

\* sha256 is modelled as an injective map of the content
generateFileHash(buf) == <<"sha256", buf>>

\* AES-256-GCM, symbolically: the ciphertext of a text under (key, iv) and
\* the tag that authenticates (ciphertext, aad) under (key, iv).
GcmCipher(text, key, iv) == <<"ct", key, iv, text>>
GcmTag(ct, key, iv) == <<"tag", key, iv, AAD, ct>>

\* EncryptionService.encrypt
encrypt(data, key, iv) ==
  LET ct == GcmCipher(JSONStringify(data), key, iv)
  IN [encrypted |-> ct, tag |-> GcmTag(ct, key, iv)]

DecryptFailed == <<"throw", "Failed to decrypt">>

\* the authentication tag lengths, in bytes, that GCM allows; getAuthTag
\* returns all 16 bytes
GcmTagLengths == {4, 8, 12, 13, 14, 15, 16}

\* the first n bytes of a tag
TagPrefix(tag, n) == IF n = 16 THEN tag ELSE <<"prefix", n, tag>>

\* createDecipheriv('aes-256-gcm', key, iv) without authTagLength, then
\* setAuthTag(tag): a tag of any allowed length is taken and final()
\* compares that many bytes of the computed tag with it
TagAccepted(tag, ct, key, iv) ==
  \E n \in GcmTagLengths : tag = TagPrefix(GcmTag(ct, key, iv), n)

\* contractSignatureSchema.statics.decryptData: the tag is verified in
\* decipher.final(); any mismatch throws
decryptData(encryptedData, key, iv, tag) ==
  IF /\ TagAccepted(tag, encryptedData, key, iv)
     /\ encryptedData[1] = "ct" /\ encryptedData[2] = key /\ encryptedData[3] = iv
    THEN JSONParse(encryptedData[4])
    ELSE DecryptFailed

\* variant: the analysis getter unseals the content payload
getDecryptedAnalysisFromContent(doc) ==
  LET r == decryptData(doc.encryptedContent, doc.encryptionKey, doc.iv, doc.contentTag)
  IN IF r = DecryptFailed THEN <<"throw", "Failed to decrypt analysis data">> ELSE r

\* variant: a failed unseal of the analysis is turned into an empty analysis
getDecryptedAnalysisOrEmpty(doc) ==
  LET r == decryptData(doc.encryptedAnalysis, doc.encryptionKey, doc.iv, doc.analysisTag)
  IN IF r = DecryptFailed THEN JObj(<<>>) ELSE r

\* contractSignatureSchema.methods.getDecryptedAnalysis
getDecryptedAnalysis(doc) ==
  LET r == decryptData(doc.encryptedAnalysis, doc.encryptionKey, doc.iv, doc.analysisTag)
  IN IF r = DecryptFailed THEN <<"throw", "Failed to decrypt analysis data">> ELSE r

\* contractSignatureSchema.methods.getDecryptedContent
getDecryptedContent(doc) ==
  LET r == decryptData(doc.encryptedContent, doc.encryptionKey, doc.iv, doc.contentTag)
  IN IF r = DecryptFailed THEN <<"throw", "Failed to decrypt content data">> ELSE r

Thrown(v) == v[1] = "throw"

\* crypto.randomBytes: the n-th draw of the secure random source
generateKey(n) == <<"key", n>>
generateIV(n) == <<"iv", n>>

\* variant: the key and iv are drawn once, when the service is constructed
createSignatureSharedKey(contractData, analysisData, n) ==
  LET key == generateKey(0)
      iv == generateIV(0)
      encryptedContent == encrypt(contractData, key, iv)
      encryptedAnalysis == encrypt(analysisData, key, iv)
  IN [key |-> key, iv |-> iv,
      encryptedContent |-> encryptedContent.encrypted,
      contentTag |-> encryptedContent.tag,
      encryptedAnalysis |-> encryptedAnalysis.encrypted,
      analysisTag |-> encryptedAnalysis.tag]

\* ContractSignatureService.createSignature
createSignature(contractData, analysisData, n) ==
  LET key == generateKey(n)
      iv == generateIV(n)
      encryptedContent == encrypt(contractData, key, iv)
      encryptedAnalysis == encrypt(analysisData, key, iv)
  IN [key |-> key, iv |-> iv,
      encryptedContent |-> encryptedContent.encrypted,
      contentTag |-> encryptedContent.tag,
      encryptedAnalysis |-> encryptedAnalysis.encrypted,
      analysisTag |-> encryptedAnalysis.tag]

(* ----------------------------- analyzer -------------------------------- *)
ParseThrow == <<"throw", "SyntaxError">>

\* what process_contract can return for a file: the analyzer is an opaque,
\* non-deterministic collaborator; its result names the bytes it read
AnalysisVals(b) == { JObj(<<<<"risk", JNum(v)>>, <<"src", JStr(b)>>>>) : v \in 1..2 }

OkOutput(a) ==
  [code |-> 0,
   parsed |-> JObj(<<<<"ok", JBool(TRUE)>>, <<"analysis", a>>, <<"extracted_text", JStr("")>>>>)]

\* the python exception branch of the bridge script
ErrOutput == [code |-> 0, parsed |-> JObj(<<<<"ok", JBool(FALSE)>>, <<"error", JStr("boom")>>>>)]

\* exit code and last JSON-looking line of stdout, parsed
AnalyzerOutputs(b) ==
  { [code |-> 1, parsed |-> JObj(<<>>)],
    [code |-> 1, parsed |-> OkOutput(JObj(<<<<"risk", JNum(1)>>, <<"src", JStr(b)>>>>)).parsed],
    ErrOutput,
    [code |-> 0, parsed |-> JObj(<<>>)],
    [code |-> 0, parsed |-> ParseThrow],
    OkOutput(JNull) }
  \cup { OkOutput(a) : a \in AnalysisVals(b) }

AllOutputs == UNION { AnalyzerOutputs(b) : b \in Bytes }

JsOr(v, dflt) == IF Truthy(v) THEN v ELSE dflt

\* child.on("close"): the promise's settlement, <<"resolve", parsed>> or <<"reject", message>>
CloseResult(o) ==
  IF o.parsed = ParseThrow
    THEN <<"reject", JStr("Failed to parse analyzer output")>>
  ELSE IF o.code # 0 \/ Prop(o.parsed, "ok") = JBool(FALSE)
    THEN <<"reject", JsOr(Prop(o.parsed, "error"), JStr("Analyzer exited with error"))>>
  ELSE <<"resolve", o.parsed>>

\* variant: only the result itself is tested, not result.analysis
ResultValidLoose(result) == Truthy(result)

\* if (!result || !result.analysis) throw
ResultValid(result) == Truthy(result) /\ Truthy(Prop(result, "analysis"))

\* the analysis the handler goes on with, or the message of the error thrown
\* inside the inner try block
AnalysisStep(o) ==
  LET r == CloseResult(o)
  IN IF r[1] = "reject" THEN <<"throw", r[2][2]>>
     ELSE IF ~ResultValid(r[2]) THEN <<"throw", "Invalid response from local analyzer">>
     ELSE <<"ok", r[2]>>

(* ------------------------------- store --------------------------------- *)
\* variant: the status literal of the filter is misspelt
FindActiveMisspelt(recs, h, u) ==
  LET m == { i \in DOMAIN recs : recs[i].fileHash = h /\ recs[i].uploadedBy = u
                                  /\ recs[i].status = "Active" }
  IN IF m = {} THEN 0 ELSE CHOOSE i \in m : \A j \in m : i <= j

\* contractSignatureModel.findOne({fileHash, uploadedBy, status: "active"}):
\* index of the first match, 0 when there is none
FindActive(recs, h, u) ==
  LET m == { i \in DOMAIN recs : recs[i].fileHash = h /\ recs[i].uploadedBy = u
                                  /\ recs[i].status = "active" }
  IN IF m = {} THEN 0 ELSE CHOOSE i \in m : \A j \in m : i <= j

\* contractSignatureModel.findOne({_id, uploadedBy, status: "active"})
FindById(recs, id, u) ==
  IF id \in DOMAIN recs /\ recs[id].uploadedBy = u /\ recs[id].status = "active"
    THEN id ELSE 0

\* variant: no unique index on the collection
UniqueViolationNoIndex(recs, h) == FALSE

\* the unique index declared on fileHash (unique: true): an insert is refused
\* with E11000 when any stored document has the same fileHash
UniqueViolation(recs, h) == \E i \in DOMAIN recs : recs[i].fileHash = h

\* variant: every access counts twice
incrementAccessTwice(doc, date) ==
  [doc EXCEPT !.accessCount = @ + 2, !.lastAccessed = date]

\* contractSignatureSchema.methods.incrementAccess, up to the call of save():
\* the loaded document with its counter raised and its access time set
incrementAccess(doc, date) ==
  [doc EXCEPT !.accessCount = @ + 1, !.lastAccessed = date]

(* ------------------------------- state --------------------------------- *)
VARIABLES
  records,   \* the ContractSignature collection, in insertion order (_id = index)
  files,     \* the upload/ directory: original name -> staged file
  now,       \* the server clock: the value the next new Date() returns
  rand,      \* number of (key, iv) pairs drawn from crypto.randomBytes so far
  req,       \* per handler: the request in flight and its local variables
  last,      \* the request being answered in this turn of the event loop, with
             \* its response; Idle once the response has gone out
  served,    \* number of requests accepted so far
  ni,        \* the second run of a two-run comparison: its collection and
             \* what one uploader observed in either run
  budget,    \* number of requests the server accepts in this run
  cx,        \* a payload sealed by the encryption service and the last
             \* unseal call made on it, with what the call returned
  hires,        \* the Hire collection, in insertion order (_id = index)
  responses,    \* the Response collection: _id -> document
  issues,       \* the Issue collection: _id -> document
  users,        \* the User collection: _id -> role and lawyerProfile
  applications, \* the LawyerApplication collection, in insertion order
  calls,        \* per handler of the hire, vote and application routes: the
                \* request in flight, or the status of its last answer
  started       \* number of requests these routes have accepted

\* the collections and handlers of the hire, vote and application routes
communityVars == <<hires, responses, issues, users, applications, calls, started>>

\* the contract signature collection, its handlers and the upload directory
contractVars == <<records, files, now, rand, req, last, served, ni, budget, cx>>

vars == <<records, files, now, rand, req, last, served, ni, budget, cx,
          hires, responses, issues, users, applications, calls, started>>

(* ------------- hire, vote and lawyer application documents ------------- *)
ResponseIds == {1, 2}
IssueIds == {1}
Lawyer == "L"
Members == Users \cup {Lawyer}

\* hireSchema.status enum
HireStatuses == {"Pending", "Active", "Completed", "Cancelled", "Disputed"}

\* a handler that is not running; status is that of its last answer
NoCall ==
  [pc |-> "idle", route |-> "none", user |-> "none", id |-> 0, arg |-> "none",
   seen |-> <<>>, status |-> 0]

\* responseSchema defaults; every response answers issue 1 and is by Lawyer
NewResponse ==
  [issue |-> 1, lawyer |-> Lawyer, isHired |-> FALSE, status |-> "Pending",
   upvotes |-> <<>>, downvotes |-> <<>>]

\* issueSchema defaults; the issue of uploader "A"
NewIssue == [author |-> "A", upvotes |-> <<>>, downvotes |-> <<>>]

\* userSchema defaults: role and lawyerProfile
NewUser == [role |-> "user", isVerified |-> FALSE, verificationStatus |-> "pending"]

\* hireSchema defaults
NewHire(issue, client, lawyer, response) ==
  [issue |-> issue, client |-> client, lawyer |-> lawyer, response |-> response,
   status |-> "Pending"]

InitCommunity ==
  /\ hires = <<>>
  /\ responses = [r \in ResponseIds |-> NewResponse]
  /\ issues = [i \in IssueIds |-> NewIssue]
  /\ users = [u \in Users |-> NewUser]
  /\ applications = <<>>
  /\ calls = [p \in Procs |-> NoCall]
  /\ started = 0

Absent == [bytes |-> NoFile]
NoHash == generateFileHash(NoFile)

NoResp ==
  [status |-> 0, success |-> FALSE, isDuplicate |-> "none", message |-> "",
   error |-> "", analysis |-> Undefined, extracted_text |-> Undefined,
   contractId |-> 0, accessCount |-> -1,
   contracts |-> <<>>, pagination |-> <<>>, stats |-> <<>>, recentContracts |-> <<>>]

NoOutput == [code |-> -1, parsed |-> Undefined]

NoComparison == [shadow |-> <<>>, obs |-> <<NoResp, NoResp>>]

NoSeal ==
  [payload |-> Undefined, key |-> <<>>, iv |-> <<>>, encrypted |-> <<>>, tag |-> <<>>,
   call |-> <<>>, out |-> Undefined]

Idle ==
  [pc |-> "idle", kind |-> "none", proc |-> 0, user |-> "none", name |-> "none",
   fileHash |-> NoHash, doc |-> <<>>, docId |-> 0, resp |-> NoResp, query |-> <<>>,
   \* history of the request, kept for the properties
   seenActive |-> FALSE, calls |-> 0, output |-> NoOutput, conflict |-> <<>>,
   created |-> 0, leftStaged |-> FALSE,
   \* the directory of the analyzer bridge script: "none", "exists", "removed"
   tempDir |-> "none"]

\* new contractSignatureModel({...}): schema defaults included
NewDocument(h, n, u, sig, date, analysis) ==
  [fileHash |-> h, fileName |-> n, uploadedBy |-> u,
   encryptedContent |-> sig.encryptedContent, encryptedAnalysis |-> sig.encryptedAnalysis,
   encryptionKey |-> sig.key, iv |-> sig.iv,
   contentTag |-> sig.contentTag, analysisTag |-> sig.analysisTag,
   analysisDate |-> date, accessCount |-> 0, lastAccessed |-> date, status |-> "active",
   \* history: what the analyzer returned, completed access saves
   origAnalysis |-> analysis, reads |-> 0]

\* lines 138-144: the content payload handed to createSignature
ContentPayload(n, date, extracted_text) ==
  JObj(<<<<"fileName", JStr(n)>>, <<"uploadDate", JDate(date)>>,
         <<"extractedText", extracted_text>>>>)

\* lines 134-162: createSignature over the content metadata and the analysis
\* of the analyzer result, and the document built from it
SealedDocument(h, n, u, result, date, rnd) ==
  LET analysis == Prop(result, "analysis")
      extracted_text == Prop(result, "extracted_text")
      sig == createSignature(ContentPayload(n, date, extracted_text), analysis, rnd)
  IN NewDocument(h, n, u, sig, date, analysis)

\* A record left by an earlier run of the server: user "A" uploaded "X" as
\* "n1" at time 0, the analyzer returned a, and the record was sealed with
\* the 0-th (key, iv) draw.
EarlierRecord(a, st) ==
  [SealedDocument(generateFileHash("X"), "n1", "A", OkOutput(a).parsed, 0, 0)
     EXCEPT !.status = st]

\* The collection is durable: the server starts on an empty collection or on
\* one that holds a record of an earlier run, in use or soft-deleted (either
\* of the two values of the status enum that are not "active").
InitialStores ==
  { <<>> } \cup { <<EarlierRecord(a, st)>> :
                    a \in { JObj(<<<<"risk", JNum(1)>>, <<"src", JStr("X")>>>>) },
                    st \in {"active", "archived", "deleted"} }

Init ==
  /\ records \in InitialStores
  /\ files = [n \in Names |-> Absent]
  /\ now = 1
  /\ rand = 1
  /\ req = [p \in Procs |-> Idle]
  /\ last = Idle
  /\ served = 0
  /\ ni = NoComparison
  /\ budget = MaxRequests
  /\ cx = NoSeal
  /\ InitCommunity

\* the previous turn's response has been written to its socket
Quiet == last.pc = "idle"

Free(p) == Quiet /\ req[p].pc = "idle" /\ served < budget

At(p, pc) == Quiet /\ req[p].pc = pc

\* multer diskStorage: filename() unlinks a file of the same original name,
\* then the upload is written to upload/<originalname>
Stage(fs, n, b) == [fs EXCEPT ![n] = [bytes |-> b]]

\* deleteFileIfExists(path)
deleteFileIfExists(fs, n) == [fs EXCEPT ![n] = Absent]

\* is there a file at the staged path
StagedCopyLeft(fs, n) == fs[n].bytes # NoFile

\* res.status(...).json(...): the handler ends; the answered request is kept
\* in last, the document it held is dropped
Respond(r, fs) ==
  [r EXCEPT !.pc = "done", !.doc = <<>>,
            !.leftStaged = r.name # "none" /\ StagedCopyLeft(fs, r.name)]

\* outer catch of POST /analyze
AnalyzeFailure(msg) ==
  [NoResp EXCEPT !.status = 500, !.message = "Failed to analyze contract", !.error = msg]

(* --------------------------- POST /analyze ----------------------------- *)
\* line 87: fs.mkdtempSync creates the directory of the bridge script
mkdtempSync == "exists"

\* line 169: fs.rmSync(tempDir, {recursive, force}) in the block that
\* declares tempDir
rmSync(dir) == IF dir = "exists" THEN "removed" ELSE dir

\* line 199: the same call in the catch block.  tempDir is a const of the
\* try block (line 87) and is not in scope here: evaluating the argument
\* throws a ReferenceError, which the surrounding try/catch swallows, and
\* rmSync is never called.
rmSyncInCatch(dir) == dir

\* the request arrives without a file part: 400
AnalyzeNoFile(p, u) ==
  /\ Free(p)
  /\ last' = Respond([Idle EXCEPT !.kind = "analyze", !.proc = p, !.user = u,
                 !.resp = [NoResp EXCEPT !.status = 400, !.message = "No file uploaded"]], files)
  /\ served' = served + 1
  /\ UNCHANGED <<records, files, now, rand, req, ni, budget, cx, communityVars>>

\* verifyUser and uploadSingleFile("file") have run: the upload is staged
AnalyzeStart(p, u, n, b) ==
  /\ Free(p)
  /\ n \in NamesOf(p)
  /\ files' = Stage(files, n, b)
  /\ req' = [req EXCEPT ![p] = [Idle EXCEPT !.pc = "staged", !.kind = "analyze", !.proc = p,
                                             !.user = u, !.name = n]]
  /\ served' = served + 1
  /\ UNCHANGED <<records, now, rand, last, ni, budget, cx, communityVars>>

\* lines 39-54: read the staged file back from disk, hash it, issue findOne
AnalyzeHash(p) ==
  /\ At(p, "staged") /\ req[p].kind = "analyze"
  /\ IF files[req[p].name].bytes = NoFile
       THEN /\ last' = Respond([req[p] EXCEPT
                          !.resp = AnalyzeFailure("ENOENT: no such file or directory")], files)
            /\ req' = [req EXCEPT ![p] = Idle]
       ELSE /\ req' = [req EXCEPT ![p].pc = "lookup",
                               ![p].fileHash = generateFileHash(files[req[p].name].bytes)]
            /\ UNCHANGED last
  /\ UNCHANGED <<records, files, now, rand, served, ni, budget, cx, communityVars>>

\* lines 50-62 and 84-102: findOne resolves.  Found: the staged copy is
\* deleted and incrementAccess changes the loaded document and issues its
\* save.  Not found: the bridge script is written and the analyzer spawned.
AnalyzeFindOne(p) ==
  /\ At(p, "lookup")
  /\ LET r == req[p]
         id == FindActive(records, r.fileHash, r.user)
         seen == \E i \in DOMAIN records :
                    /\ records[i].fileHash = r.fileHash
                    /\ records[i].uploadedBy = r.user
                    /\ records[i].status = "active"
     IN IF id # 0
          THEN /\ files' = deleteFileIfExists(files, r.name)
               /\ req' = [req EXCEPT ![p].pc = "hitSave", ![p].docId = id,
                            ![p].seenActive = seen,
                            ![p].doc = <<incrementAccess(records[id], now)>>]
               /\ now' = now + 1
          ELSE /\ req' = [req EXCEPT ![p].pc = "analyzing", ![p].seenActive = seen,
                                     ![p].calls = @ + 1, ![p].tempDir = mkdtempSync]
               /\ UNCHANGED <<files, now>>
  /\ UNCHANGED <<records, rand, last, served, ni, budget, cx, communityVars>>

\* variant: the save also writes the access time to analysisDate
SaveModifiedAndDate(recs, id, doc) ==
  [recs EXCEPT ![id].accessCount = doc.accessCount,
               ![id].lastAccessed = doc.lastAccessed,
               ![id].analysisDate = doc.lastAccessed,
               ![id].reads = @ + 1]

\* Document.save() of a loaded document: $set of the modified paths
SaveModified(recs, id, doc) ==
  [recs EXCEPT ![id].accessCount = doc.accessCount,
               ![id].lastAccessed = doc.lastAccessed,
               ![id].reads = @ + 1]

\* lines 64-81: the response of a cache hit
CacheHitResponse(doc, id) ==
  LET a == getDecryptedAnalysis(doc)
      c == getDecryptedContent(doc)
  IN IF Thrown(a) THEN AnalyzeFailure(a[2])
     ELSE IF Thrown(c) THEN AnalyzeFailure(c[2])
     ELSE [NoResp EXCEPT !.status = 200, !.success = TRUE, !.isDuplicate = "true",
             !.message = "Contract already analyzed. Returning previous analysis.",
             !.analysis = a, !.extracted_text = Prop(c, "extractedText"),
             !.contractId = id, !.accessCount = doc.accessCount]

\* lines 62-81: the save of incrementAccess resolves, the record is decrypted
AnalyzeHitSave(p) ==
  /\ At(p, "hitSave") /\ req[p].kind = "analyze"
  /\ records' = SaveModified(records, req[p].docId, req[p].doc[1])
  /\ last' = Respond([req[p] EXCEPT
                        !.resp = CacheHitResponse(req[p].doc[1], req[p].docId)], files)
  /\ req' = [req EXCEPT ![p] = Idle]
  /\ UNCHANGED <<files, now, rand, served, ni, budget, cx, communityVars>>

\* lines 113-164 and 184-209: the analyzer process closes.  A valid result is
\* sealed and the save of the new document is issued; otherwise the inner
\* catch deletes the staged file and the outer catch answers 500.  (No error
\* thrown in the inner try block has a response property, so the test of
\* line 188 is false on every path.)
AnalyzeClose(p, o) ==
  /\ At(p, "analyzing")
  /\ LET r == req[p]
         f == files[r.name]
         res == AnalysisStep(o)
     IN /\ o \in (IF f.bytes = NoFile THEN {ErrOutput} ELSE AnalyzerOutputs(f.bytes))
        /\ IF res[1] = "ok"
             THEN /\ req' = [req EXCEPT ![p].pc = "inserting", ![p].output = o,
                               ![p].resp = [NoResp EXCEPT
                                  !.analysis = Prop(res[2], "analysis"),
                                  !.extracted_text = Prop(res[2], "extracted_text")],
                               ![p].doc = <<SealedDocument(r.fileHash, r.name, r.user,
                                                           res[2], now, rand)>>]
                  /\ now' = now + 1
                  /\ rand' = rand + 1
                  /\ UNCHANGED <<files, last>>
             ELSE /\ files' = deleteFileIfExists(files, r.name)
                  /\ last' = Respond([r EXCEPT !.output = o,
                                               !.tempDir = rmSyncInCatch(@),
                                               !.resp = AnalyzeFailure(res[2])], files')
                  /\ req' = [req EXCEPT ![p] = Idle]
                  /\ UNCHANGED <<now, rand>>
  /\ UNCHANGED <<records, served, ni, budget, cx, communityVars>>

\* lines 164-183 and 184-209: contractSignature.save() resolves or is
\* rejected by the unique index
AnalyzeInsert(p) ==
  /\ At(p, "inserting")
  /\ LET r == req[p]
         d == r.doc[1]
         clash == { i \in DOMAIN records : records[i].fileHash = d.fileHash }
     IN /\ files' = deleteFileIfExists(files, r.name)
        /\ IF UniqueViolation(records, d.fileHash)
             THEN /\ last' = Respond([r EXCEPT
                            !.tempDir = rmSyncInCatch(@),
                            !.resp = AnalyzeFailure("E11000 duplicate key error"),
                            !.conflict = IF clash = {} THEN <<>>
                                         ELSE LET i == CHOOSE i \in clash : TRUE
                                              IN <<[id |-> i, uploadedBy |-> records[i].uploadedBy,
                                                    status |-> records[i].status]>>], files')
                  /\ UNCHANGED records
             ELSE /\ records' = Append(records, d)
                  /\ last' = Respond([r EXCEPT !.created = Len(records) + 1,
                            !.tempDir = rmSync(@),
                            !.resp = [r.resp EXCEPT !.status = 200, !.success = TRUE,
                                        !.isDuplicate = "false",
                                        !.message = "Contract analyzed and stored successfully",
                                        !.contractId = Len(records) + 1]], files')
  /\ req' = [req EXCEPT ![p] = Idle]
  /\ UNCHANGED <<now, rand, served, ni, budget, cx, communityVars>>

(* ------------------------ POST /check-duplicate ------------------------ *)
\* req.file as multer hands it over: diskStorage sets path, never buffer
DiskFile(n) == [path |-> n, buffer |-> Undefined]

\* crypto's Hash.update throws a TypeError when given undefined
HashOrThrow(buf) ==
  IF buf = Undefined THEN <<"throw", "ERR_INVALID_ARG_TYPE">> ELSE generateFileHash(buf[2])

\* lines 238-261: the answer of check-duplicate once findOne has resolved
CheckDuplicateResponse(recs, id) ==
  IF id = 0
    THEN [NoResp EXCEPT !.status = 200, !.success = TRUE, !.isDuplicate = "false",
            !.message = "Contract not found in database. Analysis required."]
    ELSE LET a == getDecryptedAnalysis(recs[id])
             c == getDecryptedContent(recs[id])
         IN IF Thrown(a) \/ Thrown(c)
              THEN [NoResp EXCEPT !.status = 500,
                      !.message = "Failed to check for duplicate contract",
                      !.error = IF Thrown(a) THEN a[2] ELSE c[2]]
              ELSE [NoResp EXCEPT !.status = 200, !.success = TRUE, !.isDuplicate = "true",
                      !.analysis = a, !.extracted_text = Prop(c, "extractedText"),
                      !.contractId = id, !.accessCount = recs[id].accessCount]

\* variant of the handler that counts the lookup as an access of the
\* uploader's active records
CheckDuplicateCounting(p, u, n, b) ==
  /\ Free(p)
  /\ n \in NamesOf(p)
  /\ files' = Stage(files, n, b)
  /\ records' = [i \in DOMAIN records |->
                   IF records[i].uploadedBy = u /\ records[i].status = "active"
                     THEN incrementAccess(records[i], now) ELSE records[i]]
  /\ last' = Respond([Idle EXCEPT !.kind = "check", !.proc = p, !.user = u, !.name = n,
                                   !.resp = [NoResp EXCEPT !.status = 500]], files')
  /\ served' = served + 1
  /\ UNCHANGED <<now, rand, req, ni, budget, cx, communityVars>>

\* lines 217-271: upload.single("file") stages the upload on disk, then the
\* handler hashes req.file.buffer
CheckDuplicate(p, u, n, b) ==
  /\ Free(p)
  /\ n \in NamesOf(p)
  /\ files' = Stage(files, n, b)
  /\ LET file == DiskFile(n)
         h == HashOrThrow(file.buffer)
         r == [Idle EXCEPT !.kind = "check", !.proc = p, !.user = u, !.name = n]
     IN last' = Respond([r EXCEPT !.resp =
                  IF Thrown(h)
                    THEN [NoResp EXCEPT !.status = 500,
                            !.message = "Failed to check for duplicate contract",
                            !.error = h[2]]
                    ELSE CheckDuplicateResponse(records, FindActive(records, h, u))], files')
  /\ served' = served + 1
  /\ UNCHANGED <<records, now, rand, req, ni, budget, cx, communityVars>>

(* ---------------------- GET /contract/:contractId ---------------------- *)
\* lines 331-336: the answer when findOne returns no document
ContractNotFound == [NoResp EXCEPT !.status = 404, !.message = "Contract not found"]

\* lines 321-339: findOne by _id, owner and status resolves; 404 when there
\* is no such document, else incrementAccess changes the loaded document and
\* issues its save
GetFindOne(p, u, cid) ==
  /\ Free(p)
  /\ LET id == FindById(records, cid, u)
         r == [Idle EXCEPT !.kind = "get", !.proc = p, !.user = u, !.docId = cid]
     IN IF id = 0
          THEN /\ last' = Respond([r EXCEPT !.resp = ContractNotFound], files)
               /\ UNCHANGED <<req, now>>
          ELSE /\ req' = [req EXCEPT ![p] =
                            [r EXCEPT !.pc = "hitSave",
                                      !.doc = <<incrementAccess(records[id], now)>>]]
               /\ now' = now + 1
               /\ UNCHANGED last
  /\ served' = served + 1
  /\ UNCHANGED <<records, files, rand, ni, budget, cx, communityVars>>

\* lines 341-358: the response of getRecord
GetResponse(doc, id) ==
  LET a == getDecryptedAnalysis(doc)
      c == getDecryptedContent(doc)
  IN IF Thrown(a) \/ Thrown(c)
       THEN [NoResp EXCEPT !.status = 500, !.message = "Failed to retrieve contract",
               !.error = IF Thrown(a) THEN a[2] ELSE c[2]]
       ELSE [NoResp EXCEPT !.status = 200, !.success = TRUE,
               !.analysis = a, !.extracted_text = Prop(c, "extractedText"),
               !.contractId = id, !.accessCount = doc.accessCount]

\* lines 339-358: the save of incrementAccess resolves, the record is decrypted
GetHitSave(p) ==
  /\ At(p, "hitSave") /\ req[p].kind = "get"
  /\ records' = SaveModified(records, req[p].docId, req[p].doc[1])
  /\ last' = Respond([req[p] EXCEPT !.resp = GetResponse(req[p].doc[1], req[p].docId)], files)
  /\ req' = [req EXCEPT ![p] = Idle]
  /\ UNCHANGED <<files, now, rand, served, ni, budget, cx, communityVars>>

(* ------------------------- GET /user/contracts ------------------------- *)
\* the six paths the listing excludes
SealedPaths ==
  {"encryptedContent", "encryptedAnalysis", "encryptionKey", "iv", "contentTag", "analysisTag"}

\* the paths of a stored document that the model carries
DocumentPaths ==
  {"_id", "fileHash", "fileName", "uploadedBy", "analysisDate", "accessCount",
   "lastAccessed", "status"} \cup SealedPaths

\* variant: the exclusion list names the two ciphertexts only
SelectExcludingCiphertexts(doc, id, excluded) ==
  [f \in DocumentPaths \ {"encryptedContent", "encryptedAnalysis"} |->
     IF f = "_id" THEN id ELSE doc[f]]

\* Query.select("-a -b ..."): the document without the excluded paths
SelectExcluding(doc, id, excluded) ==
  [f \in DocumentPaths \ excluded |-> IF f = "_id" THEN id ELSE doc[f]]

\* Query.select("a b ..."): the named paths and _id
SelectOnly(doc, id, paths) ==
  [f \in paths \cup {"_id"} |-> IF f = "_id" THEN id ELSE doc[f]]

\* variant: the filter leaves the status out
MatchingAnyStatus(recs, u, st) == { i \in DOMAIN recs : recs[i].uploadedBy = u }

\* the documents that match the filter {uploadedBy, status}
Matching(recs, u, st) ==
  { i \in DOMAIN recs : recs[i].uploadedBy = u /\ recs[i].status = st }

\* sort({analysisDate: -1})
RECURSIVE SortByDateDesc(_, _)
SortByDateDesc(recs, ids) ==
  IF ids = {} THEN <<>>
  ELSE LET m == CHOOSE i \in ids : \A j \in ids :
                  \/ recs[i].analysisDate > recs[j].analysisDate
                  \/ recs[i].analysisDate = recs[j].analysisDate /\ i <= j
       IN <<m>> \o SortByDateDesc(recs, ids \ {m})

\* .limit(l).skip(s) of a sorted result; limit(0) is no limit
SkipLimit(ids, s, l) ==
  SubSeq(ids, s + 1, IF l = 0 \/ s + l > Len(ids) THEN Len(ids) ELSE s + l)

\* const { page = 1, limit = 10, status = "active" } = req.query
QueryDefault(v, d) == IF v = Undefined THEN d ELSE v

\* the query strings tried: numeric strings are written as the numbers they
\* are coerced to by limit * 1 and (page - 1) * limit; every paging with
\* the default filter, and each status filter with either page size
ListQueries ==
  [page : {Undefined, JNum(0), JNum(2)}, limit : {Undefined, JNum(1)}, status : {Undefined}]
    \cup [page : {Undefined}, limit : {Undefined, JNum(1)},
          status : {JStr("archived"), JStr("deleted")}]

\* Math.ceil(total / limit)
CeilDiv(a, b) == (a + b - 1) \div b

ListFailure(msg) ==
  [NoResp EXCEPT !.status = 500, !.message = "Failed to retrieve user contracts",
                 !.error = msg]

\* lines 277-291: the find of the listing resolves (a negative skip is
\* refused by the database); countDocuments is issued
ListFind(p, u, q) ==
  /\ Free(p)
  /\ LET page == QueryDefault(q.page, JNum(1))[2]
         limit == QueryDefault(q.limit, JNum(10))[2]
         status == QueryDefault(q.status, JStr("active"))[2]
         skip == (page - 1) * limit
         r == [Idle EXCEPT !.kind = "list", !.proc = p, !.user = u, !.query = <<q>>]
         ids == SkipLimit(SortByDateDesc(records, Matching(records, u, status)), skip, limit)
     IN IF skip < 0
          THEN /\ last' = Respond([r EXCEPT !.resp =
                                     ListFailure("Skip value must be non-negative")], files)
               /\ UNCHANGED req
          ELSE /\ req' = [req EXCEPT ![p] =
                            [r EXCEPT !.pc = "counting",
                                      !.resp = [NoResp EXCEPT !.contracts =
                                         [k \in DOMAIN ids |->
                                            SelectExcluding(records[ids[k]], ids[k],
                                                            SealedPaths)]]]]
               /\ UNCHANGED last
  /\ served' = served + 1
  /\ UNCHANGED <<records, files, now, rand, ni, budget, cx, communityVars>>

\* lines 293-306: countDocuments resolves, the page is answered
ListCount(p) ==
  /\ At(p, "counting")
  /\ LET r == req[p]
         q == r.query[1]
         page == QueryDefault(q.page, JNum(1))[2]
         limit == QueryDefault(q.limit, JNum(10))[2]
         status == QueryDefault(q.status, JStr("active"))[2]
         total == Cardinality(Matching(records, r.user, status))
     IN last' = Respond([r EXCEPT !.resp =
                  [r.resp EXCEPT !.status = 200, !.success = TRUE,
                     !.pagination = <<[current |-> page, pages |-> CeilDiv(total, limit),
                                       total |-> total]>>]], files)
  /\ req' = [req EXCEPT ![p] = Idle]
  /\ UNCHANGED <<records, files, now, rand, served, ni, budget, cx, communityVars>>

(* ------------------------------ GET /stats ---------------------------- *)
RECURSIVE SumAccess(_, _)
\* $sum: "$accessCount" over a group
SumAccess(recs, ids) ==
  IF ids = {} THEN 0
  ELSE LET i == CHOOSE i \in ids : TRUE
       IN recs[i].accessCount + SumAccess(recs, ids \ {i})

\* lines 375-392 and 420-426: the $group over the uploader's active records,
\* or the zero defaults when there is none
StatsOf(recs, u) ==
  LET ids == Matching(recs, u, "active")
  IN IF ids = {}
       THEN [totalContracts |-> 0, totalAccessCount |-> 0, lastUploadDate |-> JNull]
       ELSE [totalContracts |-> Cardinality(ids),
             totalAccessCount |-> SumAccess(recs, ids),
             lastUploadDate |-> JDate(recs[Head(SortByDateDesc(recs, ids))].analysisDate)]

\* lines 375-392: the first aggregate resolves
StatsTotals(p, u) ==
  /\ Free(p)
  /\ req' = [req EXCEPT ![p] =
               [Idle EXCEPT !.pc = "fileTypes", !.kind = "stats", !.proc = p, !.user = u,
                            !.resp = [NoResp EXCEPT !.stats = <<StatsOf(records, u)>>]]]
  /\ served' = served + 1
  /\ UNCHANGED <<records, files, now, rand, last, ni, budget, cx, communityVars>>

\* lines 394-407: the aggregate by fileType resolves (a path the model does
\* not carry); the find of the recent contracts is issued
StatsFileTypes(p) ==
  /\ At(p, "fileTypes")
  /\ req' = [req EXCEPT ![p].pc = "recent"]
  /\ UNCHANGED <<records, files, now, rand, last, served, ni, budget, cx, communityVars>>

\* lines 409-429: the five most recent active records, three paths each
StatsRecent(p) ==
  /\ At(p, "recent")
  /\ LET r == req[p]
         ids == SkipLimit(SortByDateDesc(records, Matching(records, r.user, "active")), 0, 5)
     IN last' = Respond([r EXCEPT !.resp =
                  [r.resp EXCEPT !.status = 200, !.success = TRUE,
                     !.recentContracts =
                        [k \in DOMAIN ids |->
                           SelectOnly(records[ids[k]], ids[k],
                                      {"fileName", "analysisDate", "accessCount"})]]], files)
  /\ req' = [req EXCEPT ![p] = Idle]
  /\ UNCHANGED <<records, files, now, rand, served, ni, budget, cx, communityVars>>

(* ----------------------------- soft delete ----------------------------- *)
\* the administrative flow that takes a record out of use: active -> archived
\* or deleted, nothing else changes.  Every query filters on status "active"
\* only, so a running server takes the step with "archived"; a "deleted"
\* record is one left by an earlier run (InitialStores).  The flow is one
\* of the requests the server accepts in a run.
Archive(id, st) ==
  /\ Quiet
  /\ id \in DOMAIN records
  /\ records[id].status = "active"
  /\ st \in {"archived", "deleted"}
  /\ served < budget
  /\ served' = served + 1
  /\ records' = [records EXCEPT ![id].status = st]
  /\ UNCHANGED <<files, now, rand, req, last, ni, budget, cx, communityVars>>

\* the response leaves the server
Flush ==
  /\ ~Quiet
  /\ last' = Idle
  /\ UNCHANGED <<records, files, now, rand, req, served, ni, budget, cx, communityVars>>

Next ==
  \/ Flush
  \/ \E p \in Procs, u \in Users : AnalyzeNoFile(p, u)
  \/ \E p \in Procs, u \in Users, n \in Names, b \in Bytes : AnalyzeStart(p, u, n, b)
  \/ \E p \in Procs : AnalyzeHash(p)
  \/ \E p \in Procs : AnalyzeFindOne(p)
  \/ \E p \in Procs : AnalyzeHitSave(p)
  \/ \E p \in Procs, o \in AllOutputs : AnalyzeClose(p, o)
  \/ \E p \in Procs : AnalyzeInsert(p)
  \/ \E p \in Procs, u \in Users, n \in Names, b \in Bytes : CheckDuplicate(p, u, n, b)
  \/ \E p \in Procs, u \in Users, cid \in 1..(Len(records) + 1) : GetFindOne(p, u, cid)
  \/ \E p \in Procs : GetHitSave(p)
  \/ \E id \in DOMAIN records, st \in {"archived"} : Archive(id, st)

Spec == Init /\ [][Next]_vars

\* the server when only POST /analyze is called
NextAnalyze ==
  \/ Flush
  \/ \E p \in Procs, u \in Users : AnalyzeNoFile(p, u)
  \/ \E p \in Procs, u \in Users, n \in Names, b \in Bytes : AnalyzeStart(p, u, n, b)
  \/ \E p \in Procs : AnalyzeHash(p)
  \/ \E p \in Procs : AnalyzeFindOne(p)
  \/ \E p \in Procs : AnalyzeHitSave(p)
  \/ \E p \in Procs, o \in AllOutputs : AnalyzeClose(p, o)
  \/ \E p \in Procs : AnalyzeInsert(p)

SpecAnalyze == Init /\ [][NextAnalyze]_vars

\* the server when requests never overlap: a client that waits for each
\* answer before it sends the next request (one handler in flight)
NextSeq ==
  \/ Flush
  \/ \E u \in Users, n \in Names, b \in Bytes : AnalyzeStart(1, u, n, b)
  \/ AnalyzeHash(1)
  \/ AnalyzeFindOne(1)
  \/ AnalyzeHitSave(1)
  \/ \E o \in AllOutputs : AnalyzeClose(1, o)
  \/ AnalyzeInsert(1)
  \/ \E u \in Users, cid \in 1..(Len(records) + 1) : GetFindOne(1, u, cid)
  \/ GetHitSave(1)

SpecSeq == Init /\ [][NextSeq]_vars

\* the same server with its scheduling: a database round trip that was
\* issued resolves and its continuation runs, and a response that was
\* written goes out.  Nothing makes the analyzer process exit, and no
\* request has to arrive.
SpecSeqLive ==
  /\ Init /\ [][NextSeq]_vars
  /\ WF_vars(Flush)
  /\ WF_vars(AnalyzeHash(1))
  /\ WF_vars(AnalyzeFindOne(1))
  /\ WF_vars(AnalyzeHitSave(1))
  /\ WF_vars(AnalyzeInsert(1))
  /\ WF_vars(GetHitSave(1))

\* every route of the router, on a collection whose soft-deleted records
\* are those of earlier runs.  The listing and the statistics only query:
\* their requests are taken by the second handler, next to whatever the
\* first one is doing.
NextRouter ==
  \/ Flush
  \/ \E p \in Procs, u \in Users, n \in Names, b \in Bytes : AnalyzeStart(p, u, n, b)
  \/ \E p \in Procs : AnalyzeHash(p)
  \/ \E p \in Procs : AnalyzeFindOne(p)
  \/ \E p \in Procs : AnalyzeHitSave(p)
  \/ \E p \in Procs, o \in AllOutputs : AnalyzeClose(p, o)
  \/ \E p \in Procs : AnalyzeInsert(p)
  \/ \E p \in Procs, u \in Users, n \in Names, b \in Bytes : CheckDuplicate(p, u, n, b)
  \/ \E p \in Procs, u \in Users, cid \in 1..(Len(records) + 1) : GetFindOne(p, u, cid)
  \/ \E p \in Procs : GetHitSave(p)
  \/ \E u \in Users, q \in ListQueries : ListFind(2, u, q)
  \/ ListCount(2)
  \/ \E u \in Users : StatsTotals(2, u)
  \/ StatsFileTypes(2)
  \/ StatsRecent(2)

SpecRouter == Init /\ [][NextRouter]_vars

\* the server on a collection that holds uploader "A"'s active record for
\* "X", when "A" only reads it: re-uploads of "X" and GET /contract/:id
InitReads ==
  /\ records = <<EarlierRecord(JObj(<<<<"risk", JNum(1)>>, <<"src", JStr("X")>>>>), "active")>>
  /\ files = [n \in Names |-> Absent]
  /\ now = 1
  /\ rand = 1
  /\ req = [p \in Procs |-> Idle]
  /\ last = Idle
  /\ served = 0
  /\ ni = NoComparison
  /\ budget = MaxReads
  /\ cx = NoSeal
  /\ InitCommunity

NextReads ==
  \/ Flush
  \/ \E p \in Procs, n \in Names : AnalyzeStart(p, "A", n, "X")
  \/ \E p \in Procs : AnalyzeHash(p)
  \/ \E p \in Procs : AnalyzeFindOne(p)
  \/ \E p \in Procs : AnalyzeHitSave(p)
  \/ \E p \in Procs, cid \in DOMAIN records : GetFindOne(p, "A", cid)
  \/ \E p \in Procs : GetHitSave(p)

SpecReads == InitReads /\ [][NextReads]_vars

(* --------------------- records damaged in storage ---------------------- *)
\* a stored document one of whose sealed fields no longer matches the rest:
\* a changed ciphertext or tag, or the key or iv of another record
DamageKinds == {"encryptedAnalysis", "contentTag", "encryptionKey", "iv"}

Damage(doc, f) ==
  CASE f = "encryptedAnalysis" -> [doc EXCEPT !.encryptedAnalysis = <<"tampered", @>>]
    [] f = "contentTag" -> [doc EXCEPT !.contentTag = <<"tampered", @>>]
    [] f = "encryptionKey" -> [doc EXCEPT !.encryptionKey = generateKey(-1)]
    [] f = "iv" -> [doc EXCEPT !.iv = generateIV(-1)]

\* the server starts on a collection whose one record, uploader "A"'s active
\* record for "X", was damaged in storage
InitDamaged ==
  /\ records \in { <<Damage(EarlierRecord(JObj(<<<<"risk", JNum(1)>>, <<"src", JStr("X")>>>>),
                                           "active"), f)>> : f \in DamageKinds }
  /\ files = [n \in Names |-> Absent]
  /\ now = 1
  /\ rand = 1
  /\ req = [p \in Procs |-> Idle]
  /\ last = Idle
  /\ served = 0
  /\ ni = NoComparison
  /\ budget = MaxRequests
  /\ cx = NoSeal
  /\ InitCommunity

SpecDamaged == InitDamaged /\ [][Next]_vars

(* ----------------------- the encryption service ------------------------ *)
\* the payloads createSignature is given: analysis results of the analyzer
\* (objects or any other truthy JSON value) and content payloads
SealPayloads ==
  AnalysisVals("X") \cup { JStr("low risk") }
    \cup { ContentPayload("n1", d, t) : d \in 1..MaxDraws, t \in {JStr(""), Undefined} }

\* a stored hex string with some byte changed
Tamper(x) == <<"tampered", x>>

InitCrypto ==
  /\ records = <<>>
  /\ files = [n \in Names |-> Absent]
  /\ now = 1
  /\ rand = 1
  /\ req = [p \in Procs |-> Idle]
  /\ last = Idle
  /\ served = 0
  /\ ni = NoComparison
  /\ budget = MaxRequests
  /\ cx = NoSeal
  /\ InitCommunity

\* EncryptionService.encrypt(p, key, iv) with the n-th key and the m-th iv
\* drawn by generateKey and generateIV
Seal(p, n, m) ==
  /\ cx = NoSeal
  /\ LET key == generateKey(n)
         iv == generateIV(m)
         e == encrypt(p, key, iv)
     IN cx' = [NoSeal EXCEPT !.payload = p, !.key = key, !.iv = iv,
                             !.encrypted = e.encrypted, !.tag = e.tag]
  /\ UNCHANGED <<records, files, now, rand, req, last, served, ni, budget, communityVars>>

\* EncryptionService.decrypt / decryptData called for the sealed payload:
\* with what encrypt returned, or with the ciphertext changed, the tag
\* changed or cut short, or another key or iv
Unseal(ct, k, i, t) ==
  /\ cx # NoSeal /\ cx.call = <<>>
  /\ ct \in {cx.encrypted, Tamper(cx.encrypted)}
  /\ t \in {Tamper(cx.tag)} \cup { TagPrefix(cx.tag, n) : n \in GcmTagLengths }
  /\ cx' = [cx EXCEPT !.call = <<ct, k, i, t>>, !.out = decryptData(ct, k, i, t)]
  /\ UNCHANGED <<records, files, now, rand, req, last, served, ni, budget, communityVars>>

NextCrypto ==
  \/ \E p \in SealPayloads, n, m \in 1..MaxDraws : Seal(p, n, m)
  \/ \E ct \in {cx.encrypted, Tamper(cx.encrypted)},
        k \in { generateKey(n) : n \in 1..MaxDraws },
        i \in { generateIV(n) : n \in 1..MaxDraws },
        t \in {Tamper(cx.tag)} \cup { TagPrefix(cx.tag, n) : n \in GcmTagLengths } :
          Unseal(ct, k, i, t)

SpecCrypto == InitCrypto /\ [][NextCrypto]_vars

(* ----------------------- two runs, side by side ------------------------ *)
\* POST /analyze served without any other request in between: the steps of
\* AnalyzeStart .. AnalyzeInsert in sequence, on collection recs
AnalyzeAlone(recs, u, n, b, o, date, rnd) ==
  LET h == generateFileHash(b)
      id == FindActive(recs, h, u)
      res == AnalysisStep(o)
  IN IF id # 0
       THEN LET doc == incrementAccess(recs[id], date)
            IN [records |-> SaveModified(recs, id, doc), resp |-> CacheHitResponse(doc, id)]
     ELSE IF res[1] # "ok"
       THEN [records |-> recs, resp |-> AnalyzeFailure(res[2])]
     ELSE IF UniqueViolation(recs, h)
       THEN [records |-> recs, resp |-> AnalyzeFailure("E11000 duplicate key error")]
     ELSE [records |-> Append(recs, SealedDocument(h, n, u, res[2], date, rnd)),
           resp |-> [NoResp EXCEPT !.status = 200, !.success = TRUE, !.isDuplicate = "false",
                       !.message = "Contract analyzed and stored successfully",
                       !.analysis = Prop(res[2], "analysis"),
                       !.extracted_text = Prop(res[2], "extracted_text"),
                       !.contractId = Len(recs) + 1]]

\* what the caller can tell from a response; record ids are opaque
Observed(resp) ==
  [status |-> resp.status, success |-> resp.success, isDuplicate |-> resp.isDuplicate,
   message |-> resp.message, error |-> resp.error, analysis |-> resp.analysis,
   extracted_text |-> resp.extracted_text, accessCount |-> resp.accessCount]

InitNI ==
  /\ records = <<>>
  /\ files = [n \in Names |-> Absent]
  /\ now = 1
  /\ rand = 1
  /\ req = [p \in Procs |-> Idle]
  /\ last = Idle
  /\ served = 0
  /\ ni = NoComparison
  /\ budget = MaxRequests
  /\ cx = NoSeal
  /\ InitCommunity

\* uploader "A" uploads in the first run only
UploadOther(n, b, o) ==
  /\ served < budget
  /\ o \in AnalyzerOutputs(b)
  /\ records' = AnalyzeAlone(records, "A", n, b, o, now, rand).records
  /\ now' = now + 1 /\ rand' = rand + 1 /\ served' = served + 1
  /\ UNCHANGED <<files, req, last, ni, budget, cx, communityVars>>

\* uploader "B" uploads the same file in both runs and the analyzer prints
\* the same output in both
UploadBoth(n, b, o) ==
  /\ served < budget
  /\ o \in AnalyzerOutputs(b)
  /\ LET r1 == AnalyzeAlone(records, "B", n, b, o, now, rand)
         r2 == AnalyzeAlone(ni.shadow, "B", n, b, o, now, rand)
     IN /\ records' = r1.records
        /\ ni' = [shadow |-> r2.records, obs |-> <<Observed(r1.resp), Observed(r2.resp)>>]
  /\ now' = now + 1 /\ rand' = rand + 1 /\ served' = served + 1
  /\ UNCHANGED <<files, req, last, budget, cx, communityVars>>

NextNI ==
  \/ \E n \in Names, b \in Bytes, o \in AllOutputs : UploadOther(n, b, o)
  \/ \E n \in Names, b \in Bytes, o \in AllOutputs : UploadBoth(n, b, o)

SpecNI == InitNI /\ [][NextNI]_vars

(* ------------------------------ hire routes ---------------------------- *)
\* a handler can take a request
CallFree(p) == calls[p].pc = "idle" /\ started < MaxCalls

\* res.status(st).json(...): the handler ends
Answer(c, st) == [NoCall EXCEPT !.route = c.route, !.user = c.user, !.id = c.id,
                                !.arg = c.arg, !.status = st]

\* PUT /:id/status, lines 207-213
allowedTransitions ==
  [Pending |-> {"Active", "Cancelled"}, Active |-> {"Completed", "Disputed"},
   Completed |-> {}, Cancelled |-> {}, Disputed |-> {"Active", "Cancelled"}]

\* POST /, lines 9-46: responseModel.findById resolves; the handler checks
\* the response, the issue's author and isHired, and issues hireModel.create
HireFind(p, u, rid) ==
  /\ CallFree(p)
  /\ LET c == [NoCall EXCEPT !.route = "hire", !.user = u, !.id = rid]
     IN calls' = [calls EXCEPT ![p] =
          IF rid \notin DOMAIN responses THEN Answer(c, 404)
          ELSE IF issues[responses[rid].issue].author # u THEN Answer(c, 403)
          ELSE IF responses[rid].isHired THEN Answer(c, 400)
          ELSE [c EXCEPT !.pc = "creating", !.seen = <<responses[rid]>>]]
  /\ started' = started + 1
  /\ UNCHANGED <<hires, responses, issues, users, applications, contractVars>>

\* lines 48-58: hireModel.create resolves with the new Hire
HireCreate(p) ==
  /\ calls[p].pc = "creating"
  /\ LET response == calls[p].seen[1]
     IN hires' = Append(hires, NewHire(response.issue, calls[p].user, response.lawyer,
                                       calls[p].id))
  /\ calls' = [calls EXCEPT ![p].pc = "marking"]
  /\ UNCHANGED <<responses, issues, users, applications, started, contractVars>>

\* lines 60-77: responseModel.findByIdAndUpdate resolves, 201
HireMark(p) ==
  /\ calls[p].pc = "marking"
  /\ responses' = [responses EXCEPT ![calls[p].id].isHired = TRUE,
                                    ![calls[p].id].status = "Accepted"]
  /\ calls' = [calls EXCEPT ![p] = Answer(calls[p], 201)]
  /\ UNCHANGED <<hires, issues, users, applications, started, contractVars>>

\* PUT /:id/status, lines 182-224: hireModel.findById resolves; the handler
\* checks the parties and the transition from the status it has read
StatusFind(p, u, hid, status) ==
  /\ CallFree(p)
  /\ LET c == [NoCall EXCEPT !.route = "status", !.user = u, !.id = hid, !.arg = status]
     IN calls' = [calls EXCEPT ![p] =
          IF hid \notin DOMAIN hires THEN Answer(c, 404)
          ELSE IF hires[hid].client # u /\ hires[hid].lawyer # u THEN Answer(c, 403)
          ELSE IF status \notin allowedTransitions[hires[hid].status] THEN Answer(c, 400)
          ELSE [c EXCEPT !.pc = "updating", !.seen = <<hires[hid]>>]]
  /\ started' = started + 1
  /\ UNCHANGED <<hires, responses, issues, users, applications, contractVars>>

\* lines 226-241: hireModel.findByIdAndUpdate(id, {status, ...}) resolves, 200
StatusUpdate(p) ==
  /\ calls[p].pc = "updating"
  /\ hires' = [hires EXCEPT ![calls[p].id].status = calls[p].arg]
  /\ calls' = [calls EXCEPT ![p] = Answer(calls[p], 200)]
  /\ UNCHANGED <<responses, issues, users, applications, started, contractVars>>

NextHire ==
  \/ \E p \in Procs, u \in Users, rid \in ResponseIds \cup {0} : HireFind(p, u, rid)
  \/ \E p \in Procs : HireCreate(p)
  \/ \E p \in Procs : HireMark(p)
  \/ \E p \in Procs, u \in Members, hid \in 1..(Len(hires) + 1), st \in HireStatuses :
       StatusFind(p, u, hid, st)
  \/ \E p \in Procs : StatusUpdate(p)

\* the hire router on empty collections, the contract routes not called
InitHire == Init /\ records = <<>>

SpecHire == InitHire /\ [][NextHire]_vars

(* ------------------------------ vote routes ---------------------------- *)
\* MongooseArray.includes
includes(arr, x) == \E k \in DOMAIN arr : arr[k] = x

\* $pull: every occurrence of x is removed
pull(arr, x) == SelectSeq(arr, LAMBDA e : e # x)

\* variant: the vote is appended whether or not it is already there ($push)
addToSetAlways(arr, x) == Append(arr, x)

\* $addToSet: x is appended unless the array holds it already
addToSet(arr, x) == IF includes(arr, x) THEN arr ELSE Append(arr, x)

VoteTypes == {"upvote", "downvote"}
upvoteField(voteType) == IF voteType = "upvote" THEN "upvotes" ELSE "downvotes"
oppositeField(voteType) == IF voteType = "upvote" THEN "downvotes" ELSE "upvotes"

\* the update document the handler sends, applied to the stored document
VoteApply(doc, voteType, userId, hasVoted) ==
  IF hasVoted
    THEN [doc EXCEPT ![upvoteField(voteType)] = pull(@, userId)]
    ELSE [doc EXCEPT ![upvoteField(voteType)] = addToSet(@, userId),
                     ![oppositeField(voteType)] = pull(@, userId)]

\* the collection a vote route works on
VoteCollection(route) == IF route = "voteIssue" THEN issues ELSE responses

\* POST /:id/vote of the issue router and of the response router, up to the
\* await of findByIdAndUpdate: the vote type is checked, findById resolves
\* and the handler looks for the user in the two lists of its copy
VoteFind(p, route, u, id, voteType) ==
  /\ CallFree(p)
  /\ LET c == [NoCall EXCEPT !.route = route, !.user = u, !.id = id, !.arg = voteType]
         coll == VoteCollection(route)
     IN calls' = [calls EXCEPT ![p] =
          IF voteType \notin VoteTypes THEN Answer(c, 400)
          ELSE IF id \notin DOMAIN coll THEN Answer(c, 404)
          ELSE [c EXCEPT !.pc = "voting",
                         !.seen = <<[hasVoted |-> includes(coll[id][upvoteField(voteType)], u)]>>]]
  /\ started' = started + 1
  /\ UNCHANGED <<hires, responses, issues, users, applications, contractVars>>

\* findByIdAndUpdate resolves: the update is applied to the stored document
\* in one step, and the handler answers 'Vote removed' or 'Vote added'
VoteUpdate(p) ==
  /\ calls[p].pc = "voting"
  /\ LET c == calls[p]
         hasVoted == c.seen[1].hasVoted
     IN /\ IF c.route = "voteIssue"
             THEN /\ issues' = [issues EXCEPT ![c.id] = VoteApply(@, c.arg, c.user, hasVoted)]
                  /\ UNCHANGED responses
             ELSE /\ responses' = [responses EXCEPT
                                     ![c.id] = VoteApply(@, c.arg, c.user, hasVoted)]
                  /\ UNCHANGED issues
        /\ calls' = [calls EXCEPT ![p] =
                       [Answer(c, 200) EXCEPT
                          !.arg = IF hasVoted THEN "Vote removed" ELSE "Vote added"]]
  /\ UNCHANGED <<hires, users, applications, started, contractVars>>

NextVote ==
  \/ \E p \in Procs, u \in Users, id \in IssueIds \cup {0},
        voteType \in VoteTypes \cup {"none"} : VoteFind(p, "voteIssue", u, id, voteType)
  \/ \E p \in Procs, u \in Users, id \in ResponseIds \cup {0},
        voteType \in VoteTypes \cup {"none"} : VoteFind(p, "voteResponse", u, id, voteType)
  \/ \E p \in Procs : VoteUpdate(p)

\* the two vote routes on documents nobody has voted on
SpecVote == InitHire /\ [][NextVote]_vars

(* ----------------------- lawyer application routes --------------------- *)
ReviewActions == {"approve", "reject", "start_review"}

\* the switch of lines 266-294: updateData.status
ReviewStatus(action) ==
  CASE action = "start_review" -> "under_review"
    [] action = "approve" -> "approved"
    [] action = "reject" -> "rejected"

\* the switch of lines 266-294: userUpdateData applied to the user document
\* ({} for start_review, which line 317 skips)
UserUpdate(user, action) ==
  CASE action = "approve" ->
         [user EXCEPT !.isVerified = TRUE, !.verificationStatus = "approved"]
    [] action = "reject" -> [user EXCEPT !.verificationStatus = "rejected"]
    [] OTHER -> user

\* POST /, lines 9-43: the role of req.user (the user document the session
\* names) is checked and findOne for an open application resolves
SubmitFind(p, u) ==
  /\ CallFree(p)
  /\ LET c == [NoCall EXCEPT !.route = "submit", !.user = u]
         open == \E i \in DOMAIN applications :
                   /\ applications[i].applicant = u
                   /\ applications[i].status \in {"pending", "under_review"}
     IN calls' = [calls EXCEPT ![p] =
          IF users[u].role = "lawyer" THEN Answer(c, 400)
          ELSE IF open THEN Answer(c, 400)
          ELSE [c EXCEPT !.pc = "appCreate"]]
  /\ started' = started + 1
  /\ UNCHANGED <<hires, responses, issues, users, applications, contractVars>>

\* line 45: lawyerApplicationModel.create resolves
SubmitCreate(p) ==
  /\ calls[p].pc = "appCreate"
  /\ applications' = Append(applications, [applicant |-> calls[p].user, status |-> "pending"])
  /\ calls' = [calls EXCEPT ![p].pc = "appUser", ![p].id = Len(applications) + 1]
  /\ UNCHANGED <<hires, responses, issues, users, started, contractVars>>

\* lines 47-60: userModel.findByIdAndUpdate resolves, 201
SubmitUser(p) ==
  /\ calls[p].pc = "appUser"
  /\ users' = [users EXCEPT ![calls[p].user] =
                 [role |-> "lawyer", isVerified |-> FALSE, verificationStatus |-> "pending"]]
  /\ calls' = [calls EXCEPT ![p] = Answer(calls[p], 201)]
  /\ UNCHANGED <<hires, responses, issues, applications, started, contractVars>>

\* PUT /admin/:id/review, lines 233-305: the role and the action are
\* checked and findById resolves
ReviewFind(p, role, aid, action) ==
  /\ CallFree(p)
  /\ LET c == [NoCall EXCEPT !.route = "review", !.user = role, !.id = aid, !.arg = action]
     IN calls' = [calls EXCEPT ![p] =
          IF role # "admin" THEN Answer(c, 403)
          ELSE IF action \notin ReviewActions THEN Answer(c, 400)
          ELSE IF aid \notin DOMAIN applications THEN Answer(c, 404)
          ELSE [c EXCEPT !.pc = "reviewApp", !.seen = <<applications[aid]>>]]
  /\ started' = started + 1
  /\ UNCHANGED <<hires, responses, issues, users, applications, contractVars>>

\* lines 307-322: lawyerApplicationModel.findByIdAndUpdate resolves; the
\* user update is issued unless userUpdateData is empty
ReviewApp(p) ==
  /\ calls[p].pc = "reviewApp"
  /\ applications' = [applications EXCEPT ![calls[p].id].status = ReviewStatus(calls[p].arg)]
  /\ calls' = [calls EXCEPT ![p] =
                 IF calls[p].arg = "start_review" THEN Answer(calls[p], 200)
                 ELSE [calls[p] EXCEPT !.pc = "reviewUser"]]
  /\ UNCHANGED <<hires, responses, issues, users, started, contractVars>>

\* lines 317-328: userModel.findByIdAndUpdate(application.applicant) resolves
ReviewUser(p) ==
  /\ calls[p].pc = "reviewUser"
  /\ users' = [users EXCEPT ![calls[p].seen[1].applicant] = UserUpdate(@, calls[p].arg)]
  /\ calls' = [calls EXCEPT ![p] = Answer(calls[p], 200)]
  /\ UNCHANGED <<hires, responses, issues, applications, started, contractVars>>

\* the application router when requests never overlap: applicants submit
\* and the admin reviews, one request at a time
NextLawyer ==
  \/ \E u \in Users : SubmitFind(1, u)
  \/ SubmitCreate(1)
  \/ SubmitUser(1)
  \/ \E role \in {"admin", "user"}, aid \in 1..(Len(applications) + 1),
        action \in ReviewActions \cup {"none"} : ReviewFind(1, role, aid, action)
  \/ ReviewApp(1)
  \/ ReviewUser(1)

\* the application router on empty collections
SpecLawyer == InitHire /\ [][NextLawyer]_vars

(* ------------------------------ properties ----------------------------- *)
ActiveFor(h, u) ==
  { i \in DOMAIN records : records[i].fileHash = h /\ records[i].uploadedBy = u
                           /\ records[i].status = "active" }

Answered(kind) == last.pc = "done" /\ last.kind = kind

\* the analyzer process of the answered request ran and what it printed is a
\* failure in the sense of the bridge script: non-zero exit, unparsable
\* output, ok false, or no analysis
AnalyzerFailed(o) ==
  \/ o.code # 0
  \/ o.parsed = ParseThrow
  \/ Prop(o.parsed, "ok") = JBool(FALSE)
  \/ ~Truthy(Prop(o.parsed, "analysis"))

AnalyzerRan(r) == r.output # NoOutput

\* C1: in every reachable state there is at most one record with status
\* 'active' for any (fileHash, uploadedBy) pair, whatever the interleaving of
\* analyze requests.
C1_OneActivePerKey ==
  \A i, j \in DOMAIN records :
    (/\ records[i].status = "active" /\ records[j].status = "active"
     /\ records[i].fileHash = records[j].fileHash
     /\ records[i].uploadedBy = records[j].uploadedBy) => i = j

\* two uploads of the same new bytes by one uploader raced: the answered one
\* saw no active record at its lookup and found one at its insert
C1_Witness ==
  /\ Answered("analyze") /\ ~last.seenActive /\ last.conflict # <<>>
  /\ last.conflict[1].uploadedBy = last.user
  /\ last.conflict[1].status = "active"
  /\ Cardinality(ActiveFor(last.fileHash, last.user)) = 1

\* C2: per-uploader isolation: when another uploader holds an active record
\* for the bytes and this uploader holds none, an analyze request whose
\* analyzer succeeds answers isDuplicate=false after one analyzer run and
\* leaves an active record of its own beside the other uploader's.
C2_PerUploaderIsolation ==
  (/\ Answered("analyze") /\ AnalyzerRan(last) /\ ~AnalyzerFailed(last.output)
   /\ ~last.seenActive
   /\ \A i \in DOMAIN records :
        (records[i].fileHash = last.fileHash /\ i # last.created)
          => records[i].uploadedBy # last.user
   /\ \E i \in DOMAIN records :
        /\ records[i].fileHash = last.fileHash /\ records[i].uploadedBy # last.user
        /\ records[i].status = "active")
  => /\ last.resp.success /\ last.resp.isDuplicate = "false" /\ last.calls = 1
     /\ last.created \in ActiveFor(last.fileHash, last.user)

\* C3: no cross-user leakage through dedup: in two runs that differ only in
\* the uploads another uploader made before, an uploader observes the same
\* outcome (status, success, isDuplicate, analysis, message, error text) for
\* each of its own uploads.
C3_NoCrossUserLeak == ni.obs[1] = ni.obs[2]

\* C4: concurrent cache-hit reads are all counted: once no access save of a
\* record is in flight, its accessCount equals the number of reads that
\* completed on it (records start at accessCount 0).
C4_BothReadsCounted ==
  \A i \in DOMAIN records :
    (\A p \in Procs : ~(req[p].pc = "hitSave" /\ req[p].docId = i))
      => records[i].accessCount = records[i].reads

\* C5: an analyze request whose insert meets the active record that a
\* concurrent request of the same uploader has just created answers with
\* that record and its analysis, not with an error.
C5_ConflictRecovered ==
  (/\ Answered("analyze") /\ ~last.seenActive /\ last.conflict # <<>>
   /\ last.conflict[1].uploadedBy = last.user
   /\ last.conflict[1].status = "active")
  => /\ last.resp.success
     /\ last.resp.contractId = last.conflict[1].id
     /\ last.resp.analysis = records[last.conflict[1].id].origAnalysis

\* C6: soft-delete exclusion: when the only record for (fileHash, uploader)
\* is archived or deleted and nobody else holds the bytes, a re-upload whose
\* analyzer succeeds answers isDuplicate=false, creates a new active record
\* for the pair, and the soft-deleted record is neither returned nor active.
C6_SoftDeleteExclusion ==
  (/\ Answered("analyze") /\ AnalyzerRan(last) /\ ~AnalyzerFailed(last.output)
   /\ ~last.seenActive
   /\ \A i \in DOMAIN records :
        (records[i].fileHash = last.fileHash /\ i # last.created)
          => /\ records[i].uploadedBy = last.user
             /\ records[i].status \in {"archived", "deleted"}
   /\ \E i \in DOMAIN records : records[i].fileHash = last.fileHash /\ i # last.created)
  => /\ last.resp.success /\ last.resp.isDuplicate = "false"
     /\ last.created \in ActiveFor(last.fileHash, last.user)
     /\ last.resp.contractId = last.created

\* C7: a request whose lookup happens while an active record exists for
\* (fileHash, uploader) never runs the analyzer and is answered 200 with
\* isDuplicate=true; the analyzer runs only in requests that saw no active
\* record, so while the record stays active it is not run again.
C7_CacheHitSkipsAnalyzer ==
  /\ \A p \in Procs :
       /\ req[p].seenActive => req[p].calls = 0 /\ req[p].pc = "hitSave"
       /\ req[p].pc \in {"analyzing", "inserting"} => ~req[p].seenActive /\ req[p].calls = 1
  /\ (Answered("analyze") /\ last.seenActive)
       => /\ last.calls = 0 /\ ~AnalyzerRan(last)
          /\ last.resp.status = 200 /\ last.resp.isDuplicate = "true"
  /\ (Answered("analyze") /\ last.resp.isDuplicate = "true") => last.calls = 0

C7_Witness ==
  /\ Answered("analyze") /\ last.seenActive
  /\ last.resp.isDuplicate = "true" /\ last.resp.accessCount >= 1

\* C8: the analysis a cache-hit analyze response or a getRecord response
\* carries is exactly the analysis the analyzer returned in the request that
\* created the record.
C8_HitReturnsOriginal ==
  (/\ last.pc = "done" /\ last.resp.status = 200
   /\ \/ last.kind = "analyze" /\ last.resp.isDuplicate = "true"
      \/ last.kind = "get")
  => /\ last.resp.contractId \in DOMAIN records
     /\ last.resp.analysis = records[last.resp.contractId].origAnalysis

\* a cache hit on a record created in this run with the analyzer's second
\* possible result
C8_Witness ==
  /\ Answered("analyze") /\ last.resp.isDuplicate = "true"
  /\ last.resp.analysis = JObj(<<<<"risk", JNum(2)>>, <<"src", JStr("X")>>>>)

\* C9: a request whose analyzer failed (error exit, unparsable output, ok
\* false, or no analysis) never reaches the insert and creates no record:
\* it is answered with a failure and the collection holds no record of it.
C9_FailureCreatesNothing ==
  /\ \A p \in Procs : req[p].pc = "inserting" => ~AnalyzerFailed(req[p].output)
  /\ (Answered("analyze") /\ AnalyzerRan(last) /\ AnalyzerFailed(last.output))
       => /\ last.created = 0 /\ ~last.resp.success /\ last.resp.status = 500
          /\ last.resp.contractId = 0
  /\ \A i \in DOMAIN records : Truthy(records[i].origAnalysis)

\* the analyzer printed a result without an analysis and the uploader still
\* has no active record for the bytes
C9_Witness ==
  /\ Answered("analyze") /\ last.output = OkOutput(JNull)
  /\ ActiveFor(last.fileHash, last.user) = {}

\* C10: when a request that staged an upload is answered, no file is left at
\* its staged path (no other request in flight uses that path).
C10_StagedFileDeleted ==
  (/\ last.pc = "done" /\ last.name # "none"
   /\ \A p \in Procs : req[p].name # last.name)
  => ~last.leftStaged

\* C11: accessCount is monotonically increasing: in no step of the server
\* does the stored accessCount of a record decrease, whatever the sequence
\* and interleaving of cache-hit and getRecord requests.
C11_AccessCountMonotone ==
  [][\A i \in DOMAIN records :
       i \in DOMAIN records' => records'[i].accessCount >= records[i].accessCount]_vars

\* C12: each sequential access is counted once: a record is created with
\* accessCount 0; an access raises the counter of the loaded record by
\* exactly 1 and sets lastAccessed to the time of the access; with no
\* overlapping requests the stored accessCount is the number of completed
\* cache hits and getRecord reads, and the answer of a read reports it.
C12_SequentialCount ==
  /\ \A i \in DOMAIN records :
        IF req[1].pc = "hitSave" /\ req[1].docId = i
          THEN /\ req[1].doc[1].accessCount = records[i].reads + 1
               /\ req[1].doc[1].lastAccessed = now - 1
               /\ records[i].accessCount = records[i].reads
          ELSE records[i].accessCount = records[i].reads
  /\ (Answered("analyze") /\ last.created # 0)
       => /\ records[last.created].accessCount = 0
          /\ records[last.created].lastAccessed = records[last.created].analysisDate
  /\ (last.pc = "done" /\ last.resp.status = 200 /\ last.docId # 0)
       => /\ last.resp.accessCount = records[last.docId].reads
          /\ records[last.docId].accessCount = records[last.docId].reads
          /\ records[last.docId].lastAccessed = now - 1

\* the first re-upload of bytes uploaded in this run reports accessCount 1
C12_Witness ==
  /\ Answered("analyze") /\ last.resp.isDuplicate = "true"
  /\ last.resp.accessCount = 1
  /\ records[last.docId].analysisDate > 0
  /\ records[last.docId].accessCount = 1

\* C13: ownership check on getRecord: a request for an existing record
\* that belongs to a different uploader is answered without any of the
\* record's analysis, content or metadata, and with an access-denied
\* outcome that differs from the answer for a record that does not exist.
C13_OwnershipDenied ==
  (/\ Answered("get") /\ last.docId \in DOMAIN records
   /\ records[last.docId].uploadedBy # last.user)
  => /\ ~last.resp.success
     /\ last.resp.analysis = Undefined /\ last.resp.extracted_text = Undefined
     /\ last.resp.contractId = 0 /\ last.resp.accessCount = -1
     /\ last.resp # ContractNotFound

\* C14: fail-closed unseal: a decrypt call whose ciphertext or tag differs
\* from what encrypt returned, or whose key or iv differs from the one used
\* to encrypt, ends in a decryption failure and returns no payload.
C14_FailClosedUnseal ==
  (cx.call # <<>> /\ cx.call # <<cx.encrypted, cx.key, cx.iv, cx.tag>>)
    => cx.out = DecryptFailed

\* C15: seal/unseal round trip: decrypt called with the ciphertext and tag
\* that encrypt returned for payload p, and the same key and iv, returns a
\* value equal to p.
C15_RoundTrip ==
  (cx.call # <<>> /\ cx.call = <<cx.encrypted, cx.key, cx.iv, cx.tag>>)
    => cx.out = cx.payload

\* the sealed payloads of a stored record do not unseal
Unreadable(doc) ==
  \/ decryptData(doc.encryptedAnalysis, doc.encryptionKey, doc.iv, doc.analysisTag)
       = DecryptFailed
  \/ decryptData(doc.encryptedContent, doc.encryptionKey, doc.iv, doc.contentTag)
       = DecryptFailed

DecryptErrors == {"Failed to decrypt analysis data", "Failed to decrypt content data"}

C17_FailureKindsDistinct ==
  (Answered("analyze") /\ last.seenActive /\ Unreadable(records[last.docId]))
    => \A o \in AllOutputs :
         AnalysisStep(o)[1] = "throw"
           => <<last.resp.status, last.resp.message>>
                # <<AnalyzeFailure(AnalysisStep(o)[2]).status,
                    AnalyzeFailure(AnalysisStep(o)[2]).message>>

C19_OnlyActiveRead ==
  /\ (/\ last.pc = "done" /\ last.kind \in {"analyze", "check", "get"}
       /\ last.resp.success /\ last.resp.analysis # Undefined
       /\ last.resp.isDuplicate # "false")
      => records[last.resp.contractId].status = "active"
  /\ Answered("list")
      => \A k \in DOMAIN last.resp.contracts : last.resp.contracts[k].status = "active"

\* C19 amended: the lookups of analyze, check-duplicate and getRecord return
\* data only from 'active' records; the listing returns only records whose
\* status is the status asked for in the query, 'active' when the query
\* names none.
C19_OnlyRequestedStatusRead ==
  /\ (/\ last.pc = "done" /\ last.kind \in {"analyze", "check", "get"}
       /\ last.resp.success /\ last.resp.analysis # Undefined
       /\ last.resp.isDuplicate # "false")
      => records[last.resp.contractId].status = "active"
  /\ Answered("list")
      => \A k \in DOMAIN last.resp.contracts :
           last.resp.contracts[k].status =
             (IF last.query[1].status = Undefined THEN "active" ELSE last.query[1].status[2])

\* a listing without status filter that returns a record while the
\* uploader also has a soft-deleted one
C19_Witness ==
  /\ Answered("list") /\ last.query[1].status = Undefined
  /\ Len(last.resp.contracts) >= 1
  /\ \E i \in DOMAIN records :
       records[i].uploadedBy = last.user /\ records[i].status # "active"

\* C20: metadata-only listing: every entry of a listing answer belongs to
\* the requesting uploader and has none of the paths encryptedContent,
\* encryptedAnalysis, encryptionKey, iv, contentTag, analysisTag, whatever
\* the page, limit and status filter.
C20_ListingMetadataOnly ==
  \A p \in Procs :
    LET r == IF req[p].kind = "list" THEN req[p] ELSE last
    IN r.kind = "list"
         => \A k \in DOMAIN r.resp.contracts :
              /\ r.resp.contracts[k].uploadedBy = r.user
              /\ records[r.resp.contracts[k]._id].uploadedBy = r.user
              /\ DOMAIN r.resp.contracts[k] \cap
                   {"encryptedContent", "encryptedAnalysis", "encryptionKey", "iv",
                    "contentTag", "analysisTag"} = {}

\* a listing with page size 1 is answered with one entry
C20_Witness ==
  /\ Answered("list") /\ last.query[1].limit = JNum(1)
  /\ Len(last.resp.contracts) = 1
  /\ last.resp.pagination[1].total >= 1

\* C21: fresh key material per record: no two records, stored or about to
\* be inserted, have the same (encryptionKey, iv) pair, and in every record
\* the content and the analysis are sealed and tagged under the record's
\* own pair.
C21_FreshKeyPerRecord ==
  LET docs == { records[i] : i \in DOMAIN records }
      pending == { req[p].doc[1] : p \in { q \in Procs : req[q].pc = "inserting" } }
      sealedUnderOwnPair(d) ==
        /\ d.encryptedContent[2] = d.encryptionKey /\ d.encryptedContent[3] = d.iv
        /\ d.encryptedAnalysis[2] = d.encryptionKey /\ d.encryptedAnalysis[3] = d.iv
        /\ d.contentTag = GcmTag(d.encryptedContent, d.encryptionKey, d.iv)
        /\ d.analysisTag = GcmTag(d.encryptedAnalysis, d.encryptionKey, d.iv)
  IN /\ \A i, j \in DOMAIN records :
          (records[i].encryptionKey = records[j].encryptionKey /\ records[i].iv = records[j].iv)
            => i = j
     /\ \A p, q \in Procs :
          (/\ req[p].pc = "inserting" /\ req[q].pc = "inserting"
           /\ req[p].doc[1].encryptionKey = req[q].doc[1].encryptionKey
           /\ req[p].doc[1].iv = req[q].doc[1].iv) => p = q
     /\ \A d \in pending : \A i \in DOMAIN records :
          ~(d.encryptionKey = records[i].encryptionKey /\ d.iv = records[i].iv)
     /\ \A d \in docs \cup pending : sealedUnderOwnPair(d)

\* two records created by two requests of this run
C21_Witness ==
  /\ Len(records) >= 2
  /\ records[1].analysisDate > 0 /\ records[2].analysisDate > 0
  /\ records[1].encryptionKey # records[2].encryptionKey

\* C22: analyze requests terminate under analyzer timeout: a request that
\* is waiting for the analyzer process ends, also when the process never
\* exits, with a failure response and nothing left behind.
C22_AnalyzeEndsWithoutAnalyzer ==
  (req[1].pc = "analyzing") ~> (req[1].pc = "idle")

\* C23: hash-to-analysis binding: in every stored record the sealed analysis
\* was computed by the analyzer from the bytes whose hash is the record's
\* fileHash, also when concurrent uploads share an original file name.
C23_HashMatchesAnalysedBytes ==
  \A i \in DOMAIN records :
    LET a == getDecryptedAnalysis(records[i])
    IN /\ ~Thrown(a)
       /\ Prop(a, "src") # Undefined
       /\ records[i].fileHash = generateFileHash(Prop(a, "src")[2])

\* C24: failed reads leave the record unchanged: the step in which a cache-hit
\* analyze request or a getRecord request is answered with a decryption
\* failure leaves the accessCount and lastAccessed of the record it read as
\* they were.
C24_FailedReadLeavesRecord ==
  [][\A p \in Procs :
       (/\ At(p, "hitSave") /\ req'[p].pc = "idle"
        /\ last'.pc = "done" /\ last'.resp.error \in DecryptErrors)
         => /\ records'[req[p].docId].accessCount = records[req[p].docId].accessCount
            /\ records'[req[p].docId].lastAccessed = records[req[p].docId].lastAccessed]_vars

\* C25: check-duplicate is read-only: the step that answers a
\* check-duplicate request starts no analyzer process (no handler changes
\* position, no key material is drawn), creates no record and changes no
\* field of any record.
C25_CheckDuplicateReadOnly ==
  [][(last.pc # "done" /\ last'.pc = "done" /\ last'.kind = "check")
       => /\ records' = records
          /\ req' = req /\ rand' = rand /\ cx' = cx]_vars

\* a check-duplicate request was answered while the uploader holds an active
\* record of the bytes just uploaded
C25_Witness ==
  /\ Answered("check")
  /\ \E i \in DOMAIN records :
       /\ records[i].uploadedBy = last.user /\ records[i].status = "active"
       /\ records[i].fileHash = generateFileHash(files[last.name].bytes)

\* C26: temporary analyzer directory cleanup: when an analyze request is
\* answered, the directory it created for the bridge script has been
\* removed, on the success path and on every failure path.
C26_TempDirRemoved ==
  Answered("analyze") => last.tempDir # "exists"

\* C27: hire status state machine: the stored status of a hire contract
\* changes only along Pending->{Active,Cancelled}, Active->{Completed,
\* Disputed}, Disputed->{Active,Cancelled}, and never once it is Completed
\* or Cancelled, also when status updates of one contract run concurrently.
C27_StatusTransitions ==
  [][\A i \in DOMAIN hires :
       /\ i \in DOMAIN hires'
       /\ hires'[i].status # hires[i].status
            => hires'[i].status \in allowedTransitions[hires[i].status]]_vars

\* C28: a response is hired at most once: in every reachable state there is
\* at most one Hire record per response, also after concurrent hire requests
\* for one response.
C28_OneHirePerResponse ==
  \A i, j \in DOMAIN hires : hires[i].response = hires[j].response => i = j

\* the documents votes are cast on
Votables == { issues[i] : i \in DOMAIN issues } \cup { responses[r] : r \in DOMAIN responses }

Occurrences(arr, x) == Cardinality({ k \in DOMAIN arr : arr[k] = x })

\* C29: vote exclusivity: after any sequence and interleaving of vote
\* requests on an issue or a response, no user id is in both the upvotes
\* and the downvotes of the item and none occurs twice in either list; a
\* vote request that has found the user's vote of the same type removes it,
\* and one that has not leaves the user in that list only.
C29_VoteExclusive ==
  /\ [](\A d \in Votables : \A u \in Users :
          /\ Occurrences(d.upvotes, u) + Occurrences(d.downvotes, u) <= 1)
  /\ [][\A p \in Procs :
          (calls[p].pc = "voting" /\ calls'[p].pc = "idle")
            => LET c == calls[p]
                   d == VoteCollection(c.route)'[c.id]
               IN IF c.seen[1].hasVoted
                    THEN ~includes(d[upvoteField(c.arg)], c.user)
                    ELSE /\ includes(d[upvoteField(c.arg)], c.user)
                         /\ ~includes(d[oppositeField(c.arg)], c.user)]_vars

\* a user's second upvote of the issue in a row was answered 'Vote removed'
\* and the issue holds no vote of that user
C29_Witness ==
  \E p \in Procs :
    /\ calls[p].pc = "idle" /\ calls[p].route = "voteIssue"
    /\ calls[p].arg = "Vote removed"
    /\ ~includes(issues[calls[p].id].upvotes, calls[p].user)
    /\ ~includes(issues[calls[p].id].downvotes, calls[p].user)

\* C30: lawyer verification consistency: in every state reached by admin
\* review actions on a user's application, the user's
\* lawyerProfile.isVerified is true only if that application's status is
\* 'approved'.
C30_VerifiedOnlyIfApproved ==
  \A i \in DOMAIN applications :
    users[applications[i].applicant].isVerified => applications[i].status = "approved"

====
